---- MODULE Spec2Model ----
(***************************************************************************)
(* Model of watertap/unit_models/zero_order/surface_discharge_zo.py:       *)
(* the SurfaceDischargeZO unit (build) and its costing method              *)
(* (cost_surface_discharge).                                               *)
(*                                                                         *)
(* Numbers are exact rationals [num, den]; a quantity is a number with a   *)
(* unit, and a unit is a vector of dimension exponents with a scale        *)
(* factor, so that pyo.units.convert is a dimension check followed by a    *)
(* rescaling.  The exponent B is a natural number in the model.            *)
(***************************************************************************)
EXTENDS Integers, Sequences, FiniteSets

(* ------------------------------ bounds --------------------------------- *)

\* number of surface-discharge units on the largest flowsheet
NUnits == 2
\* the flowsheet's time set is 0..MaxTime
MaxTime == 1
\* parameter and variable values range over 0..MaxVal
MaxVal == 2
\* costing invocations on a flowsheet
MaxCalls == 2

Units == 1..NUnits
Times == 0..MaxTime

(* ----------------------------- rationals ------------------------------- *)

RECURSIVE GCD(_, _)
GCD(a, b) == IF b = 0 THEN a ELSE GCD(b, a % b)

Abs(x) == IF x < 0 THEN -x ELSE x

Rat(n, d) ==
  LET g == GCD(Abs(n), Abs(d))
      s == IF d < 0 THEN -1 ELSE 1
  IN  [num |-> (s * n) \div g, den |-> (s * d) \div g]

RInt(n) == [num |-> n, den |-> 1]
RAdd(a, b) == Rat(a.num * b.den + b.num * a.den, a.den * b.den)
RMul(a, b) == Rat(a.num * b.num, a.den * b.den)
RDiv(a, b) == Rat(a.num * b.den, a.den * b.num)
RGeq(a, b) == a.num * b.den >= b.num * a.den

RECURSIVE RPow(_, _)
RPow(a, k) == IF k = 0 THEN RInt(1) ELSE RMul(a, RPow(a, k - 1))

RECURSIVE SumSeq(_)
SumSeq(s) == IF s = <<>> THEN 0 ELSE Head(s) + SumSeq(Tail(s))

(* ------------------------------- units --------------------------------- *)

\* exponents of currency, length, volumetric flow and power, and the scale to
\* the reference unit of that dimension (USD, inch, m^3/s, kW)
MkUnit(c, l, f, k) == [cur |-> c, len |-> l, flo |-> f, pow |-> 0, k |-> k]

dimensionless == MkUnit(0, 0, 0, RInt(1))
USD == MkUnit(1, 0, 0, RInt(1))
kUSD == MkUnit(1, 0, 0, RInt(1000))
inches == MkUnit(0, 1, 0, RInt(1))
miles == MkUnit(0, 1, 0, RInt(63360))
m3_per_s == MkUnit(0, 0, 1, RInt(1))
m3_per_min == MkUnit(0, 0, 1, Rat(1, 60))
metres == MkUnit(0, 1, 0, Rat(5000, 127))
kW == [cur |-> 0, len |-> 0, flo |-> 0, pow |-> 1, k |-> RInt(1)]

UMul(a, b) ==
  [cur |-> a.cur + b.cur, len |-> a.len + b.len, flo |-> a.flo + b.flo,
   pow |-> a.pow + b.pow, k |-> RMul(a.k, b.k)]
UDiv(a, b) ==
  [cur |-> a.cur - b.cur, len |-> a.len - b.len, flo |-> a.flo - b.flo,
   pow |-> a.pow - b.pow, k |-> RDiv(a.k, b.k)]
SameDim(a, b) ==
  a.cur = b.cur /\ a.len = b.len /\ a.flo = b.flo /\ a.pow = b.pow

USD_per_mile_inch == UDiv(USD, UMul(miles, inches))

Q(v, u) == [v |-> v, u |-> u]
QMul(a, b) == Q(RMul(a.v, b.v), UMul(a.u, b.u))
QDiv(a, b) == Q(RDiv(a.v, b.v), UDiv(a.u, b.u))
\* power of a dimensionless quantity
QPow(a, k) == Q(RPow(a.v, k), a.u)

\* pyo.units.convert: defined when the dimensions agree
CanConvert(q, to) == SameDim(q.u, to)
Convert(q, to) == Q(RMul(q.v, RDiv(q.u.k, to.k)), to)

(* ------------------------------- state --------------------------------- *)

VARIABLES
  database,          \* the parameter store (config.database)
  fs_units,          \* the units on the flowsheet
  data,              \* data[u][t]: the values of the unit's variables at time t
  inherited,         \* what the base class helpers leave in the performance lists
  unit,              \* unit[u]: the unit block
  blk,               \* blk[u]: the unit's costing block
  registered_flows   \* the flows cost_flow has received, in order

vars == <<database, fs_units, data, inherited, unit, blk, registered_flows>>

\* the flowsheet costing block's base currency
base_currency == USD

\* the parameters cost_surface_discharge asks _get_tech_parameters for
TechParameterNames ==
  {"capital_a_parameter", "capital_b_parameter", "pipe_cost_basis", "reference_state"}

ParamKeys == TechParameterNames \cup {"cost_factor"}

\* a parameter store holding an entry for surface_discharge
Store(a, b, p, r, c, ua, ur) ==
  [techs |-> {"surface_discharge"},
   keys |-> ParamKeys,
   capital_a_parameter |-> Q(RInt(a), ua),
   capital_b_parameter |-> b,
   pipe_cost_basis |-> Q(RInt(p), USD_per_mile_inch),
   reference_state |-> Q(RInt(r), ur),
   cost_factor |-> RInt(c)]

Point(f, d, p, e) ==
  [flow_vol |-> f, pipe_distance |-> d, pipe_diameter |-> p, electricity |-> e]

Flat(pt) == [u \in Units |-> [t \in Times |-> pt]]

Flowsheet(db, us, dt) == [database |-> db, units |-> us, data |-> dt]

NominalStore == Store(1, 1, 1, 1, 1, USD, m3_per_s)
LowPoint == Point(1, 1, 1, 1)
HighPoint == Point(MaxVal, MaxVal, MaxVal, MaxVal)

\* one unit, every parameter and every variable value drawn from 0..MaxVal
FormulaFlowsheets ==
  { Flowsheet(Store(a, b, p, r, c, USD, m3_per_s), {1}, Flat(Point(f, d, w, f))) :
      a \in 0..MaxVal, b \in 0..MaxVal, p \in 0..MaxVal, r \in 1..MaxVal,
      c \in 0..MaxVal, f \in 0..MaxVal, d \in 0..MaxVal, w \in 0..MaxVal }

\* one unit, a store with an entry or a parameter missing, with other units,
\* or with a negative parameter (which nothing validates)
LookupStores ==
  {[NominalStore EXCEPT !.techs = {}]}
  \cup {[NominalStore EXCEPT !.keys = ParamKeys \ {k}] : k \in ParamKeys}
  \cup {Store(1, 1, 1, 1, 1, kUSD, m3_per_s),
        Store(1, 1, 1, 1, 1, USD, m3_per_min),
        Store(1, 1, 1, 1, 1, USD, miles),
        Store(1, 1, 1, 1, 1, inches, m3_per_s),
        Store(-3, 1, 1, 1, 1, USD, m3_per_s)}

LookupFlowsheets ==
  { Flowsheet(db, {1}, Flat(pt)) : db \in LookupStores, pt \in {LowPoint, HighPoint} }

\* several units whose variables vary over time
TimeFlowsheets ==
  { Flowsheet(NominalStore, Units, dt) :
      dt \in [Units -> [Times -> {LowPoint, HighPoint}]] }

\* the scenario of the specification's worked example
ScenarioStore == Store(100000, 1, 1000, 1, 1, USD, m3_per_s)
ScenarioPoint == Point(1, 2, 6, 1)
ScenarioFlowsheets == { Flowsheet(ScenarioStore, {1}, Flat(ScenarioPoint)) }

Flowsheets ==
  FormulaFlowsheets \cup LookupFlowsheets \cup TimeFlowsheets \cup ScenarioFlowsheets

EmptyMap == [x \in {} |-> x]
Put(f, k, v) == [x \in DOMAIN f \cup {k} |-> IF x = k THEN v ELSE f[x]]

TimeVar(un) == [index |-> Times, units |-> un]
ScalarVar(un) == [index |-> {"None"}, units |-> un]

\* the variables, _fixed_perf_vars and _perf_var_dict as the helpers called
\* before line 44 leave them
InheritedPerf ==
  { [vars |-> Put(EmptyMap, "electricity", TimeVar(kW)),
     fixed |-> <<>>,
     dict |-> EmptyMap],
    [vars |-> Put(Put(EmptyMap, "electricity", TimeVar(kW)),
                  "lift_height", ScalarVar(metres)),
     fixed |-> <<"lift_height">>,
     dict |-> Put(EmptyMap, "Electricity Demand", "electricity")] }

\* the units of properties[t].flow_vol
flow_vol_units == m3_per_s

NoUnit ==
  [built |-> FALSE, _tech_type |-> "", vars |-> EmptyMap,
   _fixed_perf_vars |-> <<>>, _perf_var_dict |-> EmptyMap]

NoBlk ==
  [declared |-> {},
   capital_cost |-> [value |-> 0, lb |-> 0, units |-> dimensionless],
   cost_factor |-> RInt(0),
   capital_cost_constraint |-> EmptyMap,
   calls |-> 0, costed |-> 0, error |-> "none"]

Init ==
  /\ \E fs \in Flowsheets :
       /\ database = fs.database
       /\ fs_units = fs.units
       /\ data = fs.data
  /\ inherited \in InheritedPerf
  /\ unit = [u \in Units |-> NoUnit]
  /\ blk = [u \in Units |-> NoBlk]
  /\ registered_flows = <<>>

(* ------------------------------- build --------------------------------- *)

\* mutant: the two report labels are exchanged
Build_SwappedLabels(u) ==
  /\ u \in fs_units
  /\ ~unit[u].built
  /\ unit' = [unit EXCEPT ![u] =
       [built |-> TRUE,
        _tech_type |-> "surface_discharge",
        vars |-> Put(Put(inherited.vars, "pipe_distance", TimeVar(miles)),
                     "pipe_diameter", TimeVar(inches)),
        _fixed_perf_vars |->
          Append(Append(inherited.fixed, "pipe_distance"), "pipe_diameter"),
        _perf_var_dict |->
          Put(Put(inherited.dict, "Pipe Distance", "pipe_diameter"),
              "Pipe Diameter", "pipe_distance")]]
  /\ UNCHANGED <<database, fs_units, data, inherited, blk, registered_flows>>

\* SurfaceDischargeData.build
Build(u) ==
  /\ u \in fs_units
  /\ ~unit[u].built
  /\ unit' = [unit EXCEPT ![u] =
       [built |-> TRUE,
        _tech_type |-> "surface_discharge",
        vars |-> Put(Put(inherited.vars, "pipe_distance", TimeVar(miles)),
                     "pipe_diameter", TimeVar(inches)),
        _fixed_perf_vars |->
          Append(Append(inherited.fixed, "pipe_distance"), "pipe_diameter"),
        _perf_var_dict |->
          Put(Put(inherited.dict, "Pipe Distance", "pipe_distance"),
              "Pipe Diameter", "pipe_diameter")]]
  /\ UNCHANGED <<database, fs_units, data, inherited, blk, registered_flows>>

(* ------------------------------ costing -------------------------------- *)

\* mutant: the last time point is priced
TimeLast == CHOOSE t \in Times : \A s \in Times : t >= s

\* blk.flowsheet().time.first()
TimeFirst == CHOOSE t \in Times : \A s \in Times : t <= s

\* database.get_unit_operation_parameters(_tech_type, subtype) finds an entry
HasParameterDict(u) == unit[u]._tech_type \in database.techs

\* _get_tech_parameters finds the four named parameters
HasTechParameters == TechParameterNames \subseteq database.keys

\* mutant: a missing cost factor is silently defaulted
HasCostFactor_Defaulted == TRUE

\* parameter_dict["capital_cost"]["cost_factor"] is there
HasCostFactor == "cost_factor" \in database.keys

\* the value of a time-indexed variable of the unit, with its units
VarAt(u, name, t) == Q(RInt(data[u][t][name]), unit[u].vars[name].units)

\* properties[t0].flow_vol / ref_state
FlowRatio(u) ==
  QDiv(Q(RInt(data[u][TimeFirst].flow_vol), flow_vol_units), database.reference_state)

\* mutant: the power law is added to A, not multiplied by it
BaseCost_Plus(u) ==
  Q(RAdd(database.capital_a_parameter.v,
         RPow(Convert(FlowRatio(u), dimensionless).v, database.capital_b_parameter)),
    database.capital_a_parameter.u)

\* A * convert(flow_vol / ref_state, dimensionless) ** B
BaseCost(u) ==
  QMul(database.capital_a_parameter,
       QPow(Convert(FlowRatio(u), dimensionless), database.capital_b_parameter))

\* mutant: the pipe cost grows with distance + diameter
PipeCost_Sum(u) ==
  QMul(QMul(database.pipe_cost_basis,
            Q(RInt(data[u][TimeFirst].pipe_distance + data[u][TimeFirst].pipe_diameter),
              unit[u].vars["pipe_distance"].units)),
       Q(RInt(1), unit[u].vars["pipe_diameter"].units))

\* pipe_cost_basis * pipe_distance[t0] * pipe_diameter[t0]
PipeCost(u) ==
  QMul(QMul(database.pipe_cost_basis, VarAt(u, "pipe_distance", TimeFirst)),
       VarAt(u, "pipe_diameter", TimeFirst))

\* every pyo.units.convert of the expression finds consistent dimensions
ExprUnitsOK(u) ==
  /\ CanConvert(FlowRatio(u), dimensionless)
  /\ CanConvert(BaseCost(u), base_currency)
  /\ CanConvert(PipeCost(u), base_currency)

\* mutant: the pipe cost is subtracted
CapitalCostExpr_Minus(u) ==
  RAdd(Convert(BaseCost(u), base_currency).v,
       RMul(RInt(-1), Convert(PipeCost(u), base_currency).v))

\* mutant: the expression reads the aggregator's state
CapitalCostExpr_Shared(u) ==
  RAdd(RAdd(Convert(BaseCost(u), base_currency).v,
            Convert(PipeCost(u), base_currency).v),
       RInt(Len(registered_flows)))

\* expr: the two terms, each converted to the base currency
CapitalCostExpr(u) ==
  RAdd(Convert(BaseCost(u), base_currency).v, Convert(PipeCost(u), base_currency).v)

\* blk.capital_cost = pyo.Var(initialize=1, bounds=(0, None), units=base_currency)
DeclareCapitalCost(b) ==
  [b EXCEPT !.declared = @ \cup {"capital_cost"},
            !.capital_cost = [value |-> 1, lb |-> 0, units |-> base_currency]]

\* _add_cost_factor(blk, factor)
AddCostFactor(b, factor) ==
  [b EXCEPT !.declared = @ \cup {"cost_factor"}, !.cost_factor = factor]

\* mutant: the constraint leaves the cost factor out
DeclareConstraint_NoFactor(b, u) ==
  [b EXCEPT !.declared = @ \cup {"capital_cost_constraint"},
            !.capital_cost_constraint = Put(EmptyMap, "None", CapitalCostExpr(u))]

\* blk.capital_cost_constraint: one scalar constraint, capital_cost == cost_factor * expr
DeclareConstraint(b, u) ==
  [b EXCEPT !.declared = @ \cup {"capital_cost_constraint"},
            !.capital_cost_constraint =
               Put(EmptyMap, "None", RMul(b.cost_factor, CapitalCostExpr(u)))]

\* mutant: the flow is registered under another label
ElectricityFlow_Heat(u) ==
  [unit |-> u, var |-> "electricity", t |-> TimeFirst, flow_type |-> "heat"]

\* the flow the unit registers: electricity[t0] under "electricity"
ElectricityFlow(u) ==
  [unit |-> u, var |-> "electricity", t |-> TimeFirst, flow_type |-> "electricity"]

\* flowsheet_costing_block.cost_flow(flow, flow_type)
CostFlow(flows, flow) == Append(flows, flow)

\* mutant: a unit's flow is registered on its first costing only
RegisterFlows_Once(u) ==
  IF blk[u].costed > 0 THEN registered_flows
  ELSE CostFlow(registered_flows, ElectricityFlow(u))

\* the registration that ends cost_surface_discharge
RegisterFlows(u) == CostFlow(registered_flows, ElectricityFlow(u))

\* the call ends with an exception, or returns
Raised(b, e) == [b EXCEPT !.calls = @ + 1, !.error = e]
Returned(b) == [b EXCEPT !.calls = @ + 1, !.costed = @ + 1, !.error = "none"]

\* the invocations of cost_surface_discharge so far
Invocations == SumSeq([u \in 1..NUnits |-> blk[u].calls])

\* SurfaceDischargeData.cost_surface_discharge
Cost(u) ==
  /\ u \in fs_units
  /\ unit[u].built
  /\ Invocations < MaxCalls
  /\ LET b0 == blk[u]
         b1 == DeclareCapitalCost(b0)
         b2 == AddCostFactor(b1, database.cost_factor)
         b3 == DeclareConstraint(b2, u)
     IN  IF ~HasParameterDict(u) \/ ~HasTechParameters
         THEN /\ blk' = [blk EXCEPT ![u] = Raised(b0, "KeyError")]
              /\ UNCHANGED registered_flows
         ELSE IF ~ExprUnitsOK(u)
         THEN /\ blk' = [blk EXCEPT ![u] = Raised(b1, "UnitsError")]
              /\ UNCHANGED registered_flows
         ELSE IF ~HasCostFactor
         THEN /\ blk' = [blk EXCEPT ![u] = Raised(b1, "KeyError")]
              /\ UNCHANGED registered_flows
         ELSE /\ blk' = [blk EXCEPT ![u] = Returned(b3)]
              /\ registered_flows' = RegisterFlows(u)
  /\ UNCHANGED <<database, fs_units, data, inherited, unit>>

Next == \E u \in Units : Build(u) \/ Cost(u)

Spec == Init /\ [][Next]_vars

(* --------------------------- shared notions ---------------------------- *)

\* the value of a quantity in the reference unit of its dimension
Canonical(q) == RMul(q.v, q.u.k)

HasConstraint(u) == "capital_cost_constraint" \in blk[u].declared

\* the value the constraint requires of capital_cost
RequiredCost(u) == blk[u].capital_cost_constraint["None"]

\* a store with every entry present and consistent units
ValidStore ==
  /\ "surface_discharge" \in database.techs
  /\ ParamKeys \subseteq database.keys
  /\ SameDim(database.capital_a_parameter.u, USD)
  /\ SameDim(database.reference_state.u, m3_per_s)

\* A * (flow_vol / reference_state) ** B at time t, in USD
PowerLawTerm(u, t) ==
  RMul(Canonical(database.capital_a_parameter),
       RPow(RDiv(RInt(data[u][t].flow_vol), Canonical(database.reference_state)),
            database.capital_b_parameter))

\* pipe_cost_basis * pipe_distance * pipe_diameter at time t, in USD; the basis
\* is per mile and inch, the distance in miles, the diameter in inches
LinearPipeTerm(u, t) ==
  RMul(database.pipe_cost_basis.v,
       RInt(data[u][t].pipe_distance * data[u][t].pipe_diameter))

FlowsOf(u) == SelectSeq(registered_flows, LAMBDA f : f.unit = u)

\* the value of a registered flow
FlowValue(f) == data[f.unit][f.t][f.var]

\* the electricity total the aggregator forms from the registered flows
AggregateFlowElectricity ==
  SumSeq([i \in 1..Len(registered_flows) |-> FlowValue(registered_flows[i])])

(* ------------------------------- claims -------------------------------- *)

\* C1: whenever the capital cost constraint exists, the value it requires of
\* capital_cost is cost_factor * (A * (flow_vol / reference_state) ** B
\* + pipe_cost_basis * pipe_distance * pipe_diameter), taken at the first
\* time index 0; in the worked scenario this is 112000.
C1_CapitalCostFormula ==
  \A u \in Units :
    HasConstraint(u) =>
      /\ RequiredCost(u) =
           RMul(database.cost_factor, RAdd(PowerLawTerm(u, 0), LinearPipeTerm(u, 0)))
      /\ (database = ScenarioStore /\ data[u][0] = ScenarioPoint
            => RequiredCost(u) = RInt(112000))

C1_Witness ==
  \E u \in Units :
    /\ HasConstraint(u)
    /\ database = ScenarioStore
    /\ data[u][0] = ScenarioPoint
    /\ RequiredCost(u) = RInt(112000)

NonNegativeInputs(u) ==
  /\ database.capital_a_parameter.v.num >= 0
  /\ database.capital_b_parameter >= 0
  /\ database.pipe_cost_basis.v.num >= 0
  /\ database.reference_state.v.num > 0
  /\ database.cost_factor.num >= 0
  /\ data[u][0].flow_vol >= 0
  /\ data[u][0].pipe_distance >= 0
  /\ data[u][0].pipe_diameter >= 0

\* C2: with non-negative parameters and variables and a positive reference
\* state, the value the constraint requires of capital_cost is at least the
\* variable's lower bound, 0.
C2_NonNegative ==
  \A u \in Units :
    HasConstraint(u) /\ NonNegativeInputs(u) =>
      /\ blk[u].capital_cost.lb = 0
      /\ RGeq(RequiredCost(u), RInt(blk[u].capital_cost.lb))

C2_Witness ==
  \E u \in Units :
    /\ HasConstraint(u)
    /\ NonNegativeInputs(u)
    /\ data[u][0].pipe_distance > 0
    /\ data[u][0].pipe_diameter > 0
    /\ database.pipe_cost_basis.v.num > 0
    /\ database.cost_factor.num > 0
    /\ RGeq(RequiredCost(u), RInt(1))

MissingParameter ==
  \/ "surface_discharge" \notin database.techs
  \/ ~(ParamKeys \subseteq database.keys)

C4_OneElectricityFlowPerCall ==
  \A u \in Units :
    /\ Len(FlowsOf(u)) = blk[u].costed
    /\ \A i \in 1..Len(FlowsOf(u)) :
         FlowsOf(u)[i] =
           [unit |-> u, var |-> "electricity", t |-> 0, flow_type |-> "electricity"]

C4_Witness ==
  \E u \in Units :
    /\ blk[u].costed = 1
    /\ blk[u].calls = 1
    /\ Len(registered_flows) = 1
    /\ registered_flows[1].unit = u

\* the electricity of the units costed at least once, each counted once
ElectricityOfCostedUnits ==
  SumSeq([u \in 1..NUnits |->
            IF blk[u].costed > 0 THEN data[u][0].electricity ELSE 0])

\* the electricity of the units, each counted once per successful call
ElectricityPerCall ==
  SumSeq([u \in 1..NUnits |-> blk[u].costed * data[u][0].electricity])

CostsOnlyItself(v) ==
  /\ \A u \in Units \ {v} : blk'[u] = blk[u]
  /\ "capital_cost_constraint" \in blk'[v].declared =>
       blk'[v].capital_cost_constraint["None"] =
         RMul(database.cost_factor, RAdd(PowerLawTerm(v, 0), LinearPipeTerm(v, 0)))

ZeroPipe(u) == data[u][0].pipe_distance = 0 \/ data[u][0].pipe_diameter = 0

\* C7: with a pipe distance or a pipe diameter of 0 at the first time index,
\* costing against a valid store ends without error and the constraint
\* requires capital_cost = cost_factor * A * (flow_vol / reference_state) ** B.
C7_ZeroPipe ==
  \A u \in Units :
    ZeroPipe(u) =>
      /\ (ValidStore /\ blk[u].calls > 0 => blk[u].error = "none" /\ HasConstraint(u))
      /\ (HasConstraint(u) =>
            RequiredCost(u) = RMul(database.cost_factor, PowerLawTerm(u, 0)))

C7_Witness ==
  \E u \in Units :
    /\ HasConstraint(u)
    /\ data[u][0].pipe_distance = 0
    /\ data[u][0].pipe_diameter > 0
    /\ database.pipe_cost_basis.v.num > 0
    /\ database.cost_factor.num > 0
    /\ RequiredCost(u).num > 0

\* C8: with a flow of 0 at the first time index and B > 0, the constraint
\* requires capital_cost = cost_factor * pipe_cost_basis * pipe_distance
\* * pipe_diameter: the base construction term is 0.
C8_ZeroFlow ==
  \A u \in Units :
    HasConstraint(u) /\ data[u][0].flow_vol = 0 /\ database.capital_b_parameter > 0 =>
      /\ PowerLawTerm(u, 0) = RInt(0)
      /\ RequiredCost(u) = RMul(database.cost_factor, LinearPipeTerm(u, 0))

C8_Witness ==
  \E u \in Units :
    /\ HasConstraint(u)
    /\ data[u][0].flow_vol = 0
    /\ database.capital_b_parameter > 0
    /\ database.capital_a_parameter.v.num > 0
    /\ database.cost_factor.num > 0
    /\ RequiredCost(u).num > 0

Range(s) == {s[i] : i \in DOMAIN s}
LabelsOf(u, name) ==
  {l \in DOMAIN unit[u]._perf_var_dict : unit[u]._perf_var_dict[l] = name}

\* C9: a built unit has the variables pipe_distance and pipe_diameter, each
\* indexed by the flowsheet's time set; both are in _fixed_perf_vars; and
\* _perf_var_dict reports them under exactly the labels "Pipe Distance" and
\* "Pipe Diameter".
C9_BuildRegisters ==
  \A u \in Units :
    unit[u].built =>
      /\ {"pipe_distance", "pipe_diameter"} \subseteq DOMAIN unit[u].vars
      /\ unit[u].vars["pipe_distance"].index = Times
      /\ unit[u].vars["pipe_diameter"].index = Times
      /\ {"pipe_distance", "pipe_diameter"} \subseteq Range(unit[u]._fixed_perf_vars)
      /\ LabelsOf(u, "pipe_distance") = {"Pipe Distance"}
      /\ LabelsOf(u, "pipe_diameter") = {"Pipe Diameter"}

C9_Witness ==
  \E u \in Units :
    /\ unit[u].built
    /\ Len(unit[u]._fixed_perf_vars) = 3
    /\ DOMAIN unit[u]._perf_var_dict =
         {"Electricity Demand", "Pipe Distance", "Pipe Diameter"}

\* C10: two costed units that agree at the first time index 0 have the same
\* required capital cost and registered the same electricity flow value,
\* whatever their variables are at the other times; each has one scalar
\* capital cost constraint, and every registered flow is taken at time 0.
C10_OnlyFirstTimePriced ==
  /\ \A u \in Units :
       HasConstraint(u) => Cardinality(DOMAIN blk[u].capital_cost_constraint) = 1
  /\ \A i \in 1..Len(registered_flows) : registered_flows[i].t = 0
  /\ \A u, v \in Units :
       HasConstraint(u) /\ HasConstraint(v) /\ data[u][0] = data[v][0] =>
         /\ RequiredCost(u) = RequiredCost(v)
         /\ \A i \in 1..Len(FlowsOf(u)), j \in 1..Len(FlowsOf(v)) :
              /\ FlowValue(FlowsOf(u)[i]) = FlowValue(FlowsOf(v)[j])
              /\ FlowsOf(u)[i].var = FlowsOf(v)[j].var
              /\ FlowsOf(u)[i].flow_type = FlowsOf(v)[j].flow_type

C10_Witness ==
  \E u, v \in Units :
    /\ u # v
    /\ HasConstraint(u)
    /\ HasConstraint(v)
    /\ data[u][0] = data[v][0]
    /\ \E t \in Times : t # 0 /\ data[u][t] # data[v][t]
    /\ RequiredCost(u) = RequiredCost(v)
    /\ Len(FlowsOf(u)) > 0
    /\ Len(FlowsOf(v)) > 0

====
